---- MODULE Spec2Model ----
(***************************************************************************)
(* Model of github.com/albinzx/cache: the PatternedCache facade (New, Set,  *)
(* Get, Delete) over the five cache patterns of pattern.go (CacheAside,     *)
(* ReadThrough, WriteThrough, WriteBehind, WriteAround), a Cacher and an    *)
(* optional Persister.                                                      *)
(*                                                                          *)
(* The Cacher and the Persister are key-value maps whose every call either  *)
(* succeeds or fails (the outcome is an input of the step).  Every call of  *)
(* a collaborator is one atomic step; a pattern method that makes several   *)
(* collaborator calls is a sequence of steps driven by the caller's pc, so  *)
(* that the goroutines launched by WriteBehind interleave with it.          *)
(*                                                                          *)
(* The Cacher is a memory or a redis Cacher (engine): Set hands its store    *)
(* the TTL of the call, an entry with a lifetime expires, Load seeds         *)
(* entries and Close flushes the memory Cacher.                              *)
(***************************************************************************)
EXTENDS Integers, Sequences, FiniteSets, Bags, TLC

\* ------------------------------------------------------------------ bounds
\* goroutines launched by WriteBehind that may be in flight at once
MaxTasks == 2
\* options handed to New
MaxOptions == 2
\* WithTTL options handed to one call (Cacher.Set, memory.New, redis.New)
MaxSetOptions == 2
\* the largest TTL, in seconds
MaxTTL == 2

\* Keys and values are opaque to the patterns: no method reads or writes an
\* entry other than that of its key argument, and none inspects a value
\* except to compare it with nil.
Keys == {"k"}
Values == {"a", "b"}

\* Go's nil `any` value: an absent entry; the values handed to Set are not nil
Nil == "nil"
NoKey == ""
MaybeValues == Values \cup {Nil}

\* ------------------------------------------------------------------ errors
NoErr == "nil"
ErrCacherNil == "cacher is nil"
ErrCacherSet == "cacher.Set"
ErrCacherGet == "cacher.Get"
ErrCacherDelete == "cacher.Delete"
ErrSave == "persister.Save"
ErrSelectOne == "persister.SelectOne"
ErrPersisterDelete == "persister.Delete"

\* ---------------------------------------------------------------- patterns
NilPattern == "nil"
Patterns == {"CacheAside", "ReadThrough", "WriteThrough", "WriteBehind", "WriteAround"}

\* the callers of the sequential and of the concurrent specification
Callers == {1}
Callers2 == {1, 2}

VARIABLES
  facade,    \* the *PatternedCache returned by New (NoFacade before)
  newRet,    \* what the last New call returned, and the options it applied
  cache,     \* the Cacher's contents: key -> value, Nil when absent
  store,     \* the Persister's contents: key -> value, Nil when absent
  call,      \* per caller: the call in progress (pc, arguments, locals)
  hist,      \* per caller: the last two completed calls, oldest first
  tasks,     \* bag of the goroutines launched by WriteBehind, not yet finished
  kv,        \* the plain map a CacheAside facade is compared with: key -> value of
             \* the last Set that returned nil, Nil after a Delete that returned nil
  bgFailed,  \* a collaborator call made by a goroutine has failed
  engine,    \* the memory or redis Cacher: its fields, and the last Set and Get
             \* called on it directly
  expiry     \* per key: the lifetime the Cacher's store gave the entry when the
             \* key was last written, Never for an entry that does not expire

vars == <<facade, newRet, cache, store, call, hist, tasks, kv, bgFailed, engine, expiry>>

\* ------------------------------------------------------------ construction
NoFacade == [cacher |-> FALSE, persister |-> FALSE, pattern |-> NilPattern]
\* no option: the pattern of the last WithPattern when New is given none
NoOption == "none"

\* newRet before New is called; afterwards: the arguments (cacher non-nil,
\* options given, the pattern of the last WithPattern), the results (cache
\* non-nil, err) and whether an option ran
NoNew == [called |-> FALSE, cacher |-> FALSE, given |-> FALSE, last |-> NoOption,
          cache |-> FALSE, err |-> NoErr, applied |-> FALSE]

\* WithPattern(pattern) applied to the PatternedCache c
WithPattern(pattern, c) == [c EXCEPT !.pattern = pattern]

\* defaults(c)
defaults(c) == IF c.pattern = NilPattern THEN [c EXCEPT !.pattern = "CacheAside"] ELSE c

\* mutant: an option does not replace a pattern set by an earlier one
RECURSIVE ApplyOptions_FirstWins(_, _)
ApplyOptions_FirstWins(c, options) ==
  IF options = <<>> THEN c
  ELSE ApplyOptions_FirstWins(IF c.pattern = NilPattern THEN WithPattern(Head(options), c) ELSE c,
                              Tail(options))

\* for _, option := range options { option(cache) }
RECURSIVE ApplyOptions(_, _)
ApplyOptions(c, options) ==
  IF options = <<>> THEN c
  ELSE ApplyOptions(WithPattern(Head(options), c), Tail(options))

\* the PatternedCache New returns (NoFacade for nil) and its error
NewCache(cacher, persister, options) ==
  IF ~cacher THEN NoFacade
  ELSE defaults(ApplyOptions([cacher |-> cacher, persister |-> persister, pattern |-> NilPattern], options))

NewErr(cacher) == IF ~cacher THEN ErrCacherNil ELSE NoErr

\* mutant: the options run before the nil check of the cacher
NewApplied_BeforeCheck(cacher, options) == Len(options) > 0

\* whether New has run an option function when it returns
NewApplied(cacher, options) == IF ~cacher THEN FALSE ELSE Len(options) > 0

OptionLists == UNION {[1..n -> Patterns \cup {NilPattern}] : n \in 0..MaxOptions}

\* ------------------------------------------- the memory and redis Cachers
TTLs == 0..MaxTTL
\* the durations of the WithTTL options of one call, in order
TTLLists == UNION {[1..n -> TTLs] : n \in 0..MaxSetOptions}

ErrMarshal == "marshaller.Marshal"
ErrClientSet == "client.Set"
ErrClientClose == "client.Close"

\* no call of the underlying store (go-cache, the redis client)
NotStored == [stored |-> FALSE, key |-> NoKey, value |-> Nil, ttl |-> 0]
\* no Set call yet; of a call: whether it was given options and the duration
\* of the last one, what the store was handed and the error returned
NoSet == [called |-> FALSE, given |-> FALSE, last |-> 0, store |-> NotStored, err |-> NoErr]

\* the duration of the last WithTTL of a call, zero without one
LastTTL(setOptions) == IF setOptions = <<>> THEN 0 ELSE setOptions[Len(setOptions)]

\* the errors of a redis Get: goredis.Nil, any other error of the client, and
\* an error of marshaller.Unmarshal
ErrRedisNil == "redis: nil"
ErrClientGet == "client.Get"
ErrUnmarshal == "marshaller.Unmarshal"
\* the zero value of a Go string, which is not nil
EmptyString == ""
\* what c.client.Get can answer: a *StringCmd whose Val() is the stored string
\* and whose Err() is nil, or whose Val() is "" and whose Err() is the error
Replies ==
  {[val |-> v, err |-> NoErr] : v \in Values \cup {"m:" \o w : w \in Values}}
    \cup {[val |-> EmptyString, err |-> e] : e \in {ErrRedisNil, ErrClientGet}}
\* no Get call yet
NoGet == [called |-> FALSE, key |-> NoKey, reply |-> [val |-> EmptyString, err |-> NoErr],
          value |-> Nil, err |-> NoErr]
\* no Cacher constructed yet
NoEngine == [kind |-> "none", ttl |-> 0, configured |-> FALSE, name |-> "",
             marshaller |-> FALSE, closeClient |-> FALSE, closed |-> FALSE,
             closeErr |-> NoErr, set |-> NoSet, get |-> NoGet]

\* time.Second, the unit of the durations
Second == 1
\* the lifetime of an entry that does not expire
Never == 0

\* ------------------------------------------------------------------- state
Idle == [pc |-> "idle", op |-> "none", key |-> NoKey, val |-> Nil, value |-> Nil, err |-> NoErr, ops |-> <<>>]

Init ==
  /\ facade = NoFacade
  /\ newRet = NoNew
  /\ cache = [k \in Keys |-> Nil]
  /\ store \in [Keys -> MaybeValues]
  /\ call = [c \in Callers2 |-> Idle]
  /\ hist = [c \in Callers2 |-> <<>>]
  /\ tasks = EmptyBag
  /\ kv = [k \in Keys |-> Nil]
  /\ bgFailed = FALSE
  /\ engine = NoEngine
  /\ expiry = [k \in Keys |-> Never]

\* ------------------------------------------------------------- bookkeeping
\* a completed call: its arguments, what it returned and the collaborator
\* calls it made, in order, each with its outcome
Rec(op, k, v, rv, err, ops) == [op |-> op, key |-> k, val |-> v, rv |-> rv, err |-> err, ops |-> ops]

Push(h, r) == IF Len(h) < 2 THEN Append(h, r) ELSE <<h[2], r>>

Ready(c) == facade.cacher /\ call[c].pc = "idle"

At(c, op, pc) == call[c].pc = pc /\ call[c].op = op

\* the call of caller c returns (rv, err)
Return(c, op, k, v, rv, err, ops) ==
  /\ call' = [call EXCEPT ![c] = Idle]
  /\ hist' = [hist EXCEPT ![c] = Push(@, Rec(op, k, v, rv, err, ops))]
  /\ kv' = IF facade.pattern = "CacheAside" /\ err = NoErr /\ op = "Set" THEN [kv EXCEPT ![k] = v]
           ELSE IF facade.pattern = "CacheAside" /\ err = NoErr /\ op = "Delete" THEN [kv EXCEPT ![k] = Nil]
           ELSE kv

\* the call of caller c goes on at pc, with its locals value and err
Goto(c, op, k, v, pc, value, err, ops) ==
  /\ call' = [call EXCEPT ![c] = [pc |-> pc, op |-> op, key |-> k, val |-> v,
                                  value |-> value, err |-> err, ops |-> ops]]
  /\ UNCHANGED <<hist, kv>>

\* a collaborator call and its outcome, as recorded in a call's ops
Op(name, ok) == [op |-> name, ok |-> ok]

Err(ok, e) == IF ok THEN NoErr ELSE e

\* ----------------------------------------------------------- collaborators
\* Cacher.Set / Get / Delete and Persister.Save / SelectOne / Delete on the maps;
\* a failed call leaves the map as it was and yields a nil value
CacherSet(k, v, ok) == IF ok THEN [cache EXCEPT ![k] = v] ELSE cache
CacherGet(k, ok) == IF ok THEN cache[k] ELSE Nil
CacherDelete(k, ok) == IF ok THEN [cache EXCEPT ![k] = Nil] ELSE cache
\* mutant: a Save that fails has written the value all the same
PersisterSave_Partial(k, v, ok) == [store EXCEPT ![k] = v]
PersisterSave(k, v, ok) == IF ok THEN [store EXCEPT ![k] = v] ELSE store
PersisterSelectOne(k, ok) == IF ok THEN store[k] ELSE Nil
PersisterDelete(k, ok) == IF ok THEN [store EXCEPT ![k] = Nil] ELSE store

\* ------------------------------------- Set of the memory and redis Cachers
\* mutant: WithTTL(0) leaves the TTL as it is
WithTTL_NonZero(ttl, setConfig) == IF ttl = 0 THEN setConfig ELSE [setConfig EXCEPT !.TTL = ttl]

\* cache.WithTTL(ttl) applied to the SetConfiguration setConfig
WithTTL(ttl, setConfig) == [setConfig EXCEPT !.TTL = ttl]

\* for _, option := range setOptions { option(setConfig) }
RECURSIVE ApplySetOptions(_, _)
ApplySetOptions(setConfig, setOptions) ==
  IF setOptions = <<>> THEN setConfig
  ELSE ApplySetOptions(WithTTL(Head(setOptions), setConfig), Tail(setOptions))

\* setConfig := &cache.SetConfiguration{TTL: c.ttl}, then the options
SetConfig(ttl, setOptions) == ApplySetOptions([TTL |-> ttl], setOptions)

\* the lifetime the store of a Cacher of this kind, built with the default
\* ttl, gives an entry written with the duration d.  memory: go-cache takes
\* d = 0 for its own default, which defaults() made ttl when ttl > time.Second
\* and NoExpiration otherwise; redis: d = 0 is no expiry
Expiration(kind, ttl, d) ==
  IF kind = "memory" /\ d = 0 THEN (IF ttl > Second THEN ttl ELSE Never) ELSE d

\* the lifetimes after c.Set(ctx, k, v, setOptions...): the store is handed
\* setConfig.TTL with the entry; a failed call leaves them as they were
CacherExpiry(k, setOptions, ok) ==
  IF ok THEN [expiry EXCEPT ![k] = Expiration(engine.kind, engine.ttl,
                                              SetConfig(engine.ttl, setOptions).TTL)]
  ELSE expiry

\* memory.WithTTL / redis.WithTTL applied in order to a new Cacher, whose ttl
\* is the zero Duration
RECURSIVE CacherTTL(_, _)
CacherTTL(ttl, options) ==
  IF options = <<>> THEN ttl ELSE CacherTTL(Head(options), Tail(options))

\* internal.WithPrefix.Prefix / internal.NoPrefix.Prefix
Prefix(name, key) == IF name = "" THEN key ELSE name \o "." \o key

\* the names handed to redis.WithName; strings.ToLower on them
Names == {"", "n", "N"}
ToLower(name) == IF name = "N" THEN "n" ELSE name

\* marshaller.Marshal(value)
Marshal(value) == "m:" \o value

\* memory.New(options...), the options being WithTTL
MemoryNew(options) ==
  /\ engine = NoEngine
  /\ engine' = [kind |-> "memory", ttl |-> CacherTTL(0, options), configured |-> options # <<>>,
                name |-> "", marshaller |-> FALSE, closeClient |-> FALSE,
                closed |-> FALSE, closeErr |-> NoErr, set |-> NoSet, get |-> NoGet]
  /\ UNCHANGED <<facade, newRet, cache, store, call, hist, tasks, kv, bgFailed, expiry>>

\* redis.New(options...): WithTTL options, WithName(name), WithMarshaller when
\* marshaller; closeClient is true unless WithSharedRedisClient(client, false)
\* is given
RedisNew(options, name, marshaller, closeClient) ==
  /\ engine = NoEngine
  /\ engine' = [kind |-> "redis", ttl |-> CacherTTL(0, options), configured |-> options # <<>>,
                name |-> ToLower(name), marshaller |-> marshaller,
                closeClient |-> closeClient, closed |-> FALSE, closeErr |-> NoErr,
                set |-> NoSet, get |-> NoGet]
  /\ UNCHANGED <<facade, newRet, cache, store, call, hist, tasks, kv, bgFailed, expiry>>

\* memory.Cacher.Set: c.cache.Set(key, value, setConfig.TTL); return nil
MemorySet(key, value, setOptions) ==
  /\ engine.kind = "memory"
  /\ engine' = [engine EXCEPT !.set =
       [called |-> TRUE, given |-> setOptions # <<>>, last |-> LastTTL(setOptions), err |-> NoErr,
        store |-> [stored |-> TRUE, key |-> key, value |-> value,
                   ttl |-> SetConfig(engine.ttl, setOptions).TTL]]]
  /\ cache' = CacherSet(key, value, TRUE)
  /\ expiry' = CacherExpiry(key, setOptions, TRUE)
  /\ UNCHANGED <<facade, newRet, store, call, hist, tasks, kv, bgFailed>>

\* redis.Cacher.Set: with a marshaller the value is marshalled, a Marshal
\* error returned; then c.client.Set(ctx, c.prefix.Prefix(key), value,
\* setConfig.TTL).Err(), which fails on a closed client; on success the
\* server holds the entry
RedisSet(key, value, setOptions, marshalled, ok) ==
  /\ engine.kind = "redis"
  /\ ~engine.marshaller => marshalled
  /\ ~marshalled => ok
  /\ (engine.closed /\ marshalled) => ~ok
  /\ engine' = [engine EXCEPT !.set =
       IF engine.marshaller /\ ~marshalled
         THEN [called |-> TRUE, given |-> setOptions # <<>>, last |-> LastTTL(setOptions),
               err |-> ErrMarshal, store |-> NotStored]
         ELSE [called |-> TRUE, given |-> setOptions # <<>>, last |-> LastTTL(setOptions),
               err |-> Err(ok, ErrClientSet),
               store |-> [stored |-> TRUE, key |-> Prefix(engine.name, key),
                          value |-> IF engine.marshaller THEN Marshal(value) ELSE value,
                          ttl |-> SetConfig(engine.ttl, setOptions).TTL]]]
  /\ cache' = CacherSet(key, value, marshalled /\ ok)
  /\ expiry' = CacherExpiry(key, setOptions, marshalled /\ ok)
  /\ UNCHANGED <<facade, newRet, store, call, hist, tasks, kv, bgFailed>>

\* marshaller.Unmarshal(marshalled): the value Marshal made the bytes from, an
\* error on bytes Marshal did not make
Unmarshal(marshalled) ==
  IF \E v \in Values : Marshal(v) = marshalled
    THEN [value |-> CHOOSE v \in Values : Marshal(v) = marshalled, err |-> NoErr]
    ELSE [value |-> Nil, err |-> ErrUnmarshal]

\* what redis.Cacher.Get returns on the reply of c.client.Get: (nil, nil) on
\* goredis.Nil; with a marshaller the error of value.Bytes(), which is the
\* error of the reply, then the result of Unmarshal; without one
\* (value.Val(), nil)
RedisGetResult(marshaller, reply) ==
  IF reply.err = ErrRedisNil THEN [value |-> Nil, err |-> NoErr]
  ELSE IF marshaller
    THEN IF reply.err # NoErr THEN [value |-> Nil, err |-> reply.err]
         ELSE Unmarshal(reply.val)
  ELSE [value |-> reply.val, err |-> NoErr]

\* redis.Cacher.Get(ctx, key), the client answering reply; a closed client
\* answers with an error
RedisGet(key, reply) ==
  /\ engine.kind = "redis"
  /\ engine.closed => reply.err = ErrClientGet
  /\ engine' = [engine EXCEPT !.get =
       [called |-> TRUE, key |-> Prefix(engine.name, key), reply |-> reply,
        value |-> RedisGetResult(engine.marshaller, reply).value,
        err |-> RedisGetResult(engine.marshaller, reply).err]]
  /\ UNCHANGED <<facade, newRet, cache, store, call, hist, tasks, kv, bgFailed, expiry>>

\* --------------------------------------------------------------------- New
\* what a call of New leaves in newRet
NewRet(cacher, persister, options) ==
  [called |-> TRUE, cacher |-> cacher, given |-> Len(options) > 0,
   last |-> IF options = <<>> THEN NoOption ELSE options[Len(options)],
   cache |-> NewCache(cacher, persister, options) # NoFacade,
   err |-> NewErr(cacher), applied |-> NewApplied(cacher, options)]

New(cacher, persister, options) ==
  /\ facade = NoFacade
  /\ facade' = NewCache(cacher, persister, options)
  /\ newRet' = NewRet(cacher, persister, options)
  /\ UNCHANGED <<cache, store, call, hist, tasks, kv, bgFailed, engine, expiry>>

\* -------------------------------------------------------------- CacheAside
CacheAsideSet(c, k, v, options, ok) ==
  /\ cache' = CacherSet(k, v, ok)
  /\ expiry' = CacherExpiry(k, options, ok)
  /\ Return(c, "Set", k, v, Nil, Err(ok, ErrCacherSet), <<Op("c.Set", ok)>>)
  /\ UNCHANGED <<store, tasks>>

\* mutant: Get falls back to the Persister on a miss, as ReadThrough does
CacheAsideGet_ReadThrough(c, k, ok) ==
  /\ IF CacherGet(k, ok) = Nil /\ facade.persister
       THEN Goto(c, "Get", k, Nil, "select", Nil, NoErr, <<Op("c.Get", ok)>>)
       ELSE Return(c, "Get", k, Nil, CacherGet(k, ok), Err(ok, ErrCacherGet), <<Op("c.Get", ok)>>)
  /\ UNCHANGED <<cache, store, tasks, expiry>>

CacheAsideGet(c, k, ok) ==
  /\ Return(c, "Get", k, Nil, CacherGet(k, ok), Err(ok, ErrCacherGet), <<Op("c.Get", ok)>>)
  /\ UNCHANGED <<cache, store, tasks, expiry>>

\* mutant: Delete reports success and leaves the entry in the cache
CacheAsideDelete_Keep(c, k, ok) ==
  /\ Return(c, "Delete", k, Nil, Nil, Err(ok, ErrCacherDelete), <<Op("c.Delete", ok)>>)
  /\ UNCHANGED <<cache, store, tasks, expiry>>

CacheAsideDelete(c, k, ok) ==
  /\ cache' = CacherDelete(k, ok)
  /\ Return(c, "Delete", k, Nil, Nil, Err(ok, ErrCacherDelete), <<Op("c.Delete", ok)>>)
  /\ UNCHANGED <<store, tasks, expiry>>

\* ------------------------------------------- Get of the four other patterns
\* mutant: the Cacher's error is returned, as CacheAside does
GetCacher_ReturnError(c, k, ok) ==
  /\ IF ok /\ CacherGet(k, ok) = Nil /\ facade.persister
       THEN Goto(c, "Get", k, Nil, "select", Nil, NoErr, <<Op("c.Get", ok)>>)
       ELSE Return(c, "Get", k, Nil, CacherGet(k, ok), Err(ok, ErrCacherGet), <<Op("c.Get", ok)>>)
  /\ UNCHANGED <<cache, store, tasks, expiry>>

\* value, err := c.Get(ctx, key); the error is logged; if value == nil && p != nil
\* the call goes on to SelectOne, else it returns (value, nil)
GetCacher(c, k, ok) ==
  /\ IF CacherGet(k, ok) = Nil /\ facade.persister
       THEN Goto(c, "Get", k, Nil, "select", Nil, NoErr, <<Op("c.Get", ok)>>)
       ELSE Return(c, "Get", k, Nil, CacherGet(k, ok), NoErr, <<Op("c.Get", ok)>>)
  /\ UNCHANGED <<cache, store, tasks, expiry>>

\* mutant: a SelectOne error is logged and the miss returned as (nil, nil)
GetSelectOne_SwallowError(c, ok) ==
  /\ At(c, "Get", "select")
  /\ LET k == call[c].key
         value == PersisterSelectOne(k, ok)
         ops == Append(call[c].ops, Op("p.SelectOne", ok))
     IN  IF value # Nil THEN Goto(c, "Get", k, Nil, "backfill", value, NoErr, ops)
         ELSE Return(c, "Get", k, Nil, value, NoErr, ops)
  /\ UNCHANGED <<cache, store, tasks, expiry>>

\* mutant: whatever SelectOne returns without error is written back to the cache
GetSelectOne_AlwaysBackfill(c, ok) ==
  /\ At(c, "Get", "select")
  /\ LET k == call[c].key
         value == PersisterSelectOne(k, ok)
         ops == Append(call[c].ops, Op("p.SelectOne", ok))
     IN  IF ~ok THEN Return(c, "Get", k, Nil, Nil, ErrSelectOne, ops)
         ELSE Goto(c, "Get", k, Nil, "backfill", value, NoErr, ops)
  /\ UNCHANGED <<cache, store, tasks, expiry>>

\* value, err = p.SelectOne(ctx, key); an error returns (nil, err); a non-nil
\* value goes on to the backfill, a nil one returns (nil, nil)
GetSelectOne(c, ok) ==
  /\ At(c, "Get", "select")
  /\ LET k == call[c].key
         value == PersisterSelectOne(k, ok)
         ops == Append(call[c].ops, Op("p.SelectOne", ok))
     IN  IF ~ok THEN Return(c, "Get", k, Nil, Nil, ErrSelectOne, ops)
         ELSE IF value # Nil THEN Goto(c, "Get", k, Nil, "backfill", value, NoErr, ops)
         ELSE Return(c, "Get", k, Nil, value, NoErr, ops)
  /\ UNCHANGED <<cache, store, tasks, expiry>>

\* mutant: the value read from the Persister is returned without the backfill
GetBackfill_NoSet(c, ok) ==
  /\ At(c, "Get", "backfill")
  /\ Return(c, "Get", call[c].key, Nil, call[c].value, NoErr, Append(call[c].ops, Op("c.Set", ok)))
  /\ UNCHANGED <<cache, store, tasks, expiry>>

\* c.Set(ctx, key, value), its error logged; return value, nil
GetBackfill(c, ok) ==
  /\ At(c, "Get", "backfill")
  /\ cache' = CacherSet(call[c].key, call[c].value, ok)
  /\ expiry' = CacherExpiry(call[c].key, <<>>, ok)
  /\ Return(c, "Get", call[c].key, Nil, call[c].value, NoErr, Append(call[c].ops, Op("c.Set", ok)))
  /\ UNCHANGED <<store, tasks>>

\* ------------------------------------------------------------- ReadThrough
ReadThroughSet(c, k, v, options, ok) ==
  /\ cache' = CacherSet(k, v, ok)
  /\ expiry' = CacherExpiry(k, options, ok)
  /\ Return(c, "Set", k, v, Nil, Err(ok, ErrCacherSet), <<Op("c.Set", ok)>>)
  /\ UNCHANGED <<store, tasks>>

ReadThroughGet(c, k, ok) == GetCacher(c, k, ok)

\* mutant: Delete removes the key from the store as well
ReadThroughDelete_Through(c, k, ok) ==
  /\ cache' = CacherDelete(k, ok)
  /\ store' = IF facade.persister THEN PersisterDelete(k, ok) ELSE store
  /\ Return(c, "Delete", k, Nil, Nil, Err(ok, ErrCacherDelete), <<Op("c.Delete", ok)>>)
  /\ UNCHANGED <<tasks, expiry>>

ReadThroughDelete(c, k, ok) ==
  /\ cache' = CacherDelete(k, ok)
  /\ Return(c, "Delete", k, Nil, Nil, Err(ok, ErrCacherDelete), <<Op("c.Delete", ok)>>)
  /\ UNCHANGED <<store, tasks, expiry>>

\* ------------------------------------------------------------ WriteThrough
\* mutant: Set goes on to Save without looking at the Persister
WriteThroughSet_NoNilCheck(c, k, v, options, ok) ==
  /\ cache' = CacherSet(k, v, ok)
  /\ expiry' = CacherExpiry(k, options, ok)
  /\ IF ok
       THEN Goto(c, "Set", k, v, "save", Nil, NoErr, <<Op("c.Set", ok)>>)
       ELSE Return(c, "Set", k, v, Nil, Err(ok, ErrCacherSet), <<Op("c.Set", ok)>>)
  /\ UNCHANGED <<store, tasks>>

\* c.Set; its error is returned; with a Persister the call goes on to Save
WriteThroughSet(c, k, v, options, ok) ==
  /\ cache' = CacherSet(k, v, ok)
  /\ expiry' = CacherExpiry(k, options, ok)
  /\ IF ok /\ facade.persister
       THEN Goto(c, "Set", k, v, "save", Nil, NoErr, <<Op("c.Set", ok)>>)
       ELSE Return(c, "Set", k, v, Nil, Err(ok, ErrCacherSet), <<Op("c.Set", ok)>>)
  /\ UNCHANGED <<store, tasks>>

\* mutant: a failed Save returns its error without the compensating delete
WriteThroughSetSave_NoCompensation(c, ok) ==
  /\ At(c, "Set", "save")
  /\ store' = PersisterSave(call[c].key, call[c].val, ok)
  /\ Return(c, "Set", call[c].key, call[c].val, Nil, Err(ok, ErrSave),
            Append(call[c].ops, Op("p.Save", ok)))
  /\ UNCHANGED <<cache, tasks, expiry>>

\* p.Save; on its error the call goes on to the compensating c.Delete
WriteThroughSetSave(c, ok) ==
  /\ At(c, "Set", "save")
  /\ store' = PersisterSave(call[c].key, call[c].val, ok)
  /\ LET ops == Append(call[c].ops, Op("p.Save", ok))
     IN  IF ok
           THEN Return(c, "Set", call[c].key, call[c].val, Nil, NoErr, ops)
           ELSE Goto(c, "Set", call[c].key, call[c].val, "compensate", Nil, ErrSave, ops)
  /\ UNCHANGED <<cache, tasks, expiry>>

\* mutant: the compensating delete reports success and leaves the entry
WriteThroughSetCompensate_Keep(c, ok) ==
  /\ At(c, "Set", "compensate")
  /\ Return(c, "Set", call[c].key, call[c].val, Nil, call[c].err, Append(call[c].ops, Op("c.Delete", ok)))
  /\ UNCHANGED <<cache, store, tasks, expiry>>

\* mutant: a failing compensating delete replaces the error returned
WriteThroughSetCompensate_DeleteError(c, ok) ==
  /\ At(c, "Set", "compensate")
  /\ cache' = CacherDelete(call[c].key, ok)
  /\ Return(c, "Set", call[c].key, call[c].val, Nil, IF ok THEN call[c].err ELSE ErrCacherDelete,
            Append(call[c].ops, Op("c.Delete", ok)))
  /\ UNCHANGED <<store, tasks, expiry>>

\* c.Delete, its error logged; return err (the Save error)
WriteThroughSetCompensate(c, ok) ==
  /\ At(c, "Set", "compensate")
  /\ cache' = CacherDelete(call[c].key, ok)
  /\ Return(c, "Set", call[c].key, call[c].val, Nil, call[c].err, Append(call[c].ops, Op("c.Delete", ok)))
  /\ UNCHANGED <<store, tasks, expiry>>

WriteThroughGet(c, k, ok) == GetCacher(c, k, ok)

\* mutant: a failed c.Delete is logged and the call goes on to p.Delete
WriteThroughDelete_NotFatal(c, k, ok) ==
  /\ cache' = CacherDelete(k, ok)
  /\ IF facade.persister
       THEN Goto(c, "Delete", k, Nil, "pdelete", Nil, NoErr, <<Op("c.Delete", ok)>>)
       ELSE Return(c, "Delete", k, Nil, Nil, Err(ok, ErrCacherDelete), <<Op("c.Delete", ok)>>)
  /\ UNCHANGED <<store, tasks, expiry>>

\* c.Delete; its error is returned; with a Persister the call goes on to p.Delete
WriteThroughDelete(c, k, ok) ==
  /\ cache' = CacherDelete(k, ok)
  /\ IF ok /\ facade.persister
       THEN Goto(c, "Delete", k, Nil, "pdelete", Nil, NoErr, <<Op("c.Delete", ok)>>)
       ELSE Return(c, "Delete", k, Nil, Nil, Err(ok, ErrCacherDelete), <<Op("c.Delete", ok)>>)
  /\ UNCHANGED <<store, tasks, expiry>>

\* mutant: a failed p.Delete is logged and nil returned
WriteThroughDeletePersister_Swallow(c, ok) ==
  /\ At(c, "Delete", "pdelete")
  /\ store' = PersisterDelete(call[c].key, ok)
  /\ Return(c, "Delete", call[c].key, Nil, Nil, NoErr, Append(call[c].ops, Op("p.Delete", ok)))
  /\ UNCHANGED <<cache, tasks, expiry>>

WriteThroughDeletePersister(c, ok) ==
  /\ At(c, "Delete", "pdelete")
  /\ store' = PersisterDelete(call[c].key, ok)
  /\ Return(c, "Delete", call[c].key, Nil, Nil, Err(ok, ErrPersisterDelete),
            Append(call[c].ops, Op("p.Delete", ok)))
  /\ UNCHANGED <<cache, tasks, expiry>>

\* ------------------------------------------------------------- WriteBehind
\* the goroutine of Set: p.Save, then c.Delete when Save failed; it holds the
\* ctx of the call that launched it, not cancelled then
SaveTask(k, v) == [kind |-> "save", key |-> k, val |-> v, pc |-> "run", cancelled |-> FALSE]
\* the goroutine of Delete: p.Delete, with the ctx of the call
DeleteTask(k) == [kind |-> "delete", key |-> k, val |-> Nil, pc |-> "run", cancelled |-> FALSE]

Launch(t) == tasks (+) SetToBag({t})
Finish(t) == tasks (-) SetToBag({t})

\* the goroutines in flight are bounded by MaxTasks
CanLaunch == BagCardinality(tasks) < MaxTasks

\* mutant: Set leaves the cache write out and only launches the Save
WriteBehindSet_NoCacheWrite(c, k, v, options, ok) ==
  /\ facade.persister => CanLaunch
  /\ tasks' = IF ok /\ facade.persister THEN Launch(SaveTask(k, v)) ELSE tasks
  /\ Return(c, "Set", k, v, Nil, Err(ok, ErrCacherSet), <<Op("c.Set", ok)>>)
  /\ UNCHANGED <<cache, store, expiry>>

\* mutant: Set calls Save itself and launches no goroutine
WriteBehindSet_Sync(c, k, v, options, ok) ==
  /\ cache' = CacherSet(k, v, ok)
  /\ expiry' = CacherExpiry(k, options, ok)
  /\ store' = IF facade.persister THEN PersisterSave(k, v, ok) ELSE store
  /\ Return(c, "Set", k, v, Nil, Err(ok, ErrCacherSet), <<Op("c.Set", ok)>>)
  /\ UNCHANGED tasks

\* c.Set; its error is returned; with a Persister, go func() { p.Save ... }(); return nil
WriteBehindSet(c, k, v, options, ok) ==
  /\ facade.persister => CanLaunch
  /\ cache' = CacherSet(k, v, ok)
  /\ expiry' = CacherExpiry(k, options, ok)
  /\ tasks' = IF ok /\ facade.persister THEN Launch(SaveTask(k, v)) ELSE tasks
  /\ Return(c, "Set", k, v, Nil, Err(ok, ErrCacherSet), <<Op("c.Set", ok)>>)
  /\ UNCHANGED store

\* the caller cancels the ctx it handed to a Set or Delete that has returned,
\* the goroutine of that call being still in flight
Cancel(t) ==
  /\ BagIn(t, tasks) /\ ~t.cancelled
  /\ tasks' = Finish(t) (+) SetToBag({[t EXCEPT !.cancelled = TRUE]})
  /\ UNCHANGED <<facade, newRet, cache, store, call, hist, kv, bgFailed, engine, expiry>>

\* in the goroutine: p.Save(ctx, key, value); on its error the goroutine goes
\* on to c.Delete; a Save under a cancelled ctx fails
WriteBehindSetSave(t, ok) ==
  /\ t.kind = "save" /\ t.pc = "run"
  /\ t.cancelled => ~ok
  /\ store' = PersisterSave(t.key, t.val, ok)
  /\ tasks' = IF ok THEN Finish(t) ELSE Finish(t) (+) SetToBag({[t EXCEPT !.pc = "compensate"]})
  /\ bgFailed' = (bgFailed \/ ~ok)
  /\ UNCHANGED <<facade, newRet, cache, call, hist, kv, engine, expiry>>

\* mutant: the goroutine ends after the failed Save, the cache entry left
WriteBehindSetCompensate_Skip(t, ok) ==
  /\ t.kind = "save" /\ t.pc = "compensate"
  /\ tasks' = Finish(t)
  /\ bgFailed' = (bgFailed \/ ~ok)
  /\ UNCHANGED <<facade, newRet, cache, store, call, hist, kv, engine, expiry>>

\* in the goroutine: c.Delete(ctx, key), its error logged
WriteBehindSetCompensate(t, ok) ==
  /\ t.kind = "save" /\ t.pc = "compensate"
  /\ cache' = CacherDelete(t.key, ok)
  /\ tasks' = Finish(t)
  /\ bgFailed' = (bgFailed \/ ~ok)
  /\ UNCHANGED <<facade, newRet, store, call, hist, kv, engine, expiry>>

WriteBehindGet(c, k, ok) == GetCacher(c, k, ok)

\* c.Delete; its error is returned; with a Persister, go func() { p.Delete }(); return nil
WriteBehindDelete(c, k, ok) ==
  /\ facade.persister => CanLaunch
  /\ cache' = CacherDelete(k, ok)
  /\ tasks' = IF ok /\ facade.persister THEN Launch(DeleteTask(k)) ELSE tasks
  /\ Return(c, "Delete", k, Nil, Nil, Err(ok, ErrCacherDelete), <<Op("c.Delete", ok)>>)
  /\ UNCHANGED <<store, expiry>>

\* mutant: the goroutine ends without calling p.Delete
WriteBehindDeletePersister_Lost(t, ok) ==
  /\ t.kind = "delete" /\ t.pc = "run"
  /\ tasks' = Finish(t)
  /\ UNCHANGED <<facade, newRet, cache, store, call, hist, kv, bgFailed, engine, expiry>>

\* in the goroutine: p.Delete(ctx, key), its error logged; a Delete under a
\* cancelled ctx fails
WriteBehindDeletePersister(t, ok) ==
  /\ t.kind = "delete" /\ t.pc = "run"
  /\ t.cancelled => ~ok
  /\ store' = PersisterDelete(t.key, ok)
  /\ tasks' = Finish(t)
  /\ bgFailed' = (bgFailed \/ ~ok)
  /\ UNCHANGED <<facade, newRet, cache, call, hist, kv, engine, expiry>>

\* ------------------------------------------------------------- WriteAround
\* with a Persister: p.Save, its error returned; without: return nil
WriteAroundSet(c, k, v, options, ok) ==
  /\ ~facade.persister => ok
  /\ store' = IF facade.persister THEN PersisterSave(k, v, ok) ELSE store
  /\ Return(c, "Set", k, v, Nil, Err(ok, ErrSave), IF facade.persister THEN <<Op("p.Save", ok)>> ELSE <<>>)
  /\ UNCHANGED <<cache, tasks, expiry>>

WriteAroundGet(c, k, ok) == GetCacher(c, k, ok)

\* mutant: Delete in WriteThrough's order, the Cacher first
WriteAroundDelete_CacherFirst(c, k, ok) ==
  /\ cache' = CacherDelete(k, TRUE)
  /\ IF facade.persister
       THEN /\ store' = PersisterDelete(k, ok)
            /\ Return(c, "Delete", k, Nil, Nil, Err(ok, ErrPersisterDelete),
                      <<Op("c.Delete", TRUE), Op("p.Delete", ok)>>)
       ELSE /\ Return(c, "Delete", k, Nil, Nil, NoErr, <<Op("c.Delete", TRUE)>>)
            /\ UNCHANGED store
  /\ UNCHANGED <<tasks, expiry>>

\* with a Persister: p.Delete, its error returned, else on to c.Delete;
\* without: c.Delete
WriteAroundDelete(c, k, ok) ==
  /\ IF facade.persister
       THEN /\ store' = PersisterDelete(k, ok)
            /\ IF ok
                 THEN Goto(c, "Delete", k, Nil, "cdelete", Nil, NoErr, <<Op("p.Delete", ok)>>)
                 ELSE Return(c, "Delete", k, Nil, Nil, ErrPersisterDelete, <<Op("p.Delete", ok)>>)
            /\ UNCHANGED cache
       ELSE /\ cache' = CacherDelete(k, ok)
            /\ Return(c, "Delete", k, Nil, Nil, Err(ok, ErrCacherDelete), <<Op("c.Delete", ok)>>)
            /\ UNCHANGED store
  /\ UNCHANGED <<tasks, expiry>>

WriteAroundDeleteCacher(c, ok) ==
  /\ At(c, "Delete", "cdelete")
  /\ cache' = CacherDelete(call[c].key, ok)
  /\ Return(c, "Delete", call[c].key, Nil, Nil, Err(ok, ErrCacherDelete),
            Append(call[c].ops, Op("c.Delete", ok)))
  /\ UNCHANGED <<store, tasks, expiry>>

\* ---------------------------------------------------------- PatternedCache
\* c.pattern.Set(ctx, key, value, c.cacher, c.persister, options...), the
\* options being WithTTL
SetWithOptions(c, k, v, options, ok) ==
  /\ Ready(c)
  /\ \/ facade.pattern = "CacheAside" /\ CacheAsideSet(c, k, v, options, ok)
     \/ facade.pattern = "ReadThrough" /\ ReadThroughSet(c, k, v, options, ok)
     \/ facade.pattern = "WriteThrough" /\ WriteThroughSet(c, k, v, options, ok)
     \/ facade.pattern = "WriteBehind" /\ WriteBehindSet(c, k, v, options, ok)
     \/ facade.pattern = "WriteAround" /\ WriteAroundSet(c, k, v, options, ok)
  /\ UNCHANGED <<facade, newRet, bgFailed, engine>>

\* Set(ctx, key, value), called without an option
Set(c, k, v, ok) == SetWithOptions(c, k, v, <<>>, ok)

\* c.pattern.Get(ctx, key, c.cacher, c.persister)
Get(c, k, ok) ==
  /\ Ready(c)
  /\ \/ facade.pattern = "CacheAside" /\ CacheAsideGet(c, k, ok)
     \/ facade.pattern = "ReadThrough" /\ ReadThroughGet(c, k, ok)
     \/ facade.pattern = "WriteThrough" /\ WriteThroughGet(c, k, ok)
     \/ facade.pattern = "WriteBehind" /\ WriteBehindGet(c, k, ok)
     \/ facade.pattern = "WriteAround" /\ WriteAroundGet(c, k, ok)
  /\ UNCHANGED <<facade, newRet, bgFailed, engine>>

\* c.pattern.Delete(ctx, key, c.cacher, c.persister)
Delete(c, k, ok) ==
  /\ Ready(c)
  /\ \/ facade.pattern = "CacheAside" /\ CacheAsideDelete(c, k, ok)
     \/ facade.pattern = "ReadThrough" /\ ReadThroughDelete(c, k, ok)
     \/ facade.pattern = "WriteThrough" /\ WriteThroughDelete(c, k, ok)
     \/ facade.pattern = "WriteBehind" /\ WriteBehindDelete(c, k, ok)
     \/ facade.pattern = "WriteAround" /\ WriteAroundDelete(c, k, ok)
  /\ UNCHANGED <<facade, newRet, bgFailed, engine>>

\* the later collaborator calls of a call in progress
Continue(c, ok) ==
  /\ \/ GetSelectOne(c, ok)
     \/ GetBackfill(c, ok)
     \/ WriteThroughSetSave(c, ok)
     \/ WriteThroughSetCompensate(c, ok)
     \/ WriteThroughDeletePersister(c, ok)
     \/ WriteAroundDeleteCacher(c, ok)
  /\ UNCHANGED <<facade, newRet, bgFailed, engine>>

\* a step of a goroutine launched by WriteBehind
Background(ok) ==
  \E t \in BagToSet(tasks) :
    \/ WriteBehindSetSave(t, ok)
    \/ WriteBehindSetCompensate(t, ok)
    \/ WriteBehindDeletePersister(t, ok)

Construct == \E cacher \in BOOLEAN, persister \in BOOLEAN, options \in OptionLists :
               New(cacher, persister, options)

\* the steps of the callers in C, the collaborators' outcomes drawn from
\* Outcomes; Set is called without an option
Step(C, Outcomes) ==
  \E c \in C, ok \in Outcomes :
    \/ \E k \in Keys, v \in Values : Set(c, k, v, ok)
    \/ \E k \in Keys : Get(c, k, ok)
    \/ \E k \in Keys : Delete(c, k, ok)
    \/ Continue(c, ok)

\* one caller, whose calls do not overlap; collaborators may fail; the Cacher
\* is used through the facade only, Set is called without an option and no
\* entry has a lifetime
Next ==
  \/ Construct
  \/ Step(Callers, BOOLEAN)
  \/ \E ok \in BOOLEAN : Background(ok)

Spec == Init /\ [][Next]_vars

\* one caller, whose calls do not overlap; no collaborator call fails
NextReliable ==
  \/ Construct
  \/ Step(Callers, {TRUE})
  \/ Background(TRUE)

SpecReliable == Init /\ [][NextReliable]_vars

\* one caller that only calls Set, no collaborator call failing: the runs C5
\* is about
NextSets ==
  \/ Construct
  \/ \E c \in Callers, k \in Keys, v \in Values : Set(c, k, v, TRUE)
  \/ \E c \in Callers : Continue(c, TRUE)
  \/ \E t \in BagToSet(tasks) : WriteBehindSetSave(t, TRUE)

SpecSets == Init /\ [][NextSets]_vars

\* one caller that may cancel the ctx of a call that has returned; a Persister
\* that honours the cancellation, and no collaborator call failing for
\* another reason
BackgroundCancel ==
  \E t \in BagToSet(tasks), ok \in BOOLEAN :
    /\ ~t.cancelled => ok
    /\ \/ WriteBehindSetSave(t, ok)
       \/ WriteBehindSetCompensate(t, ok)
       \/ WriteBehindDeletePersister(t, ok)

NextCancel ==
  \/ Construct
  \/ Step(Callers, {TRUE})
  \/ BackgroundCancel
  \/ \E t \in BagToSet(tasks) : Cancel(t)

SpecCancel == Init /\ [][NextCancel]_vars

\* the goroutines WriteBehind launches under a ctx that is not cancelled
TaskRecords ==
  {SaveTask(k, v) : k \in Keys, v \in Values}
    \cup {[SaveTask(k, v) EXCEPT !.pc = "compensate"] : k \in Keys, v \in Values}
    \cup {DeleteTask(k) : k \in Keys}

\* the next collaborator call of the goroutine t
Run(t, ok) ==
  /\ BagIn(t, tasks)
  /\ \/ WriteBehindSetSave(t, ok)
     \/ WriteBehindSetCompensate(t, ok)
     \/ WriteBehindDeletePersister(t, ok)

\* the Go scheduler runs every goroutine: none waits forever for its next call
Scheduled == \A t \in TaskRecords : WF_vars(\E ok \in BOOLEAN : Run(t, ok))

\* one caller of a WriteBehind facade, collaborators that may fail, goroutines
\* that are scheduled
NextWriteBehind ==
  \/ \E persister \in BOOLEAN : New(TRUE, persister, <<"WriteBehind">>)
  \/ Step(Callers, BOOLEAN)
  \/ \E ok \in BOOLEAN : Background(ok)

SpecWriteBehind == Init /\ [][NextWriteBehind]_vars /\ Scheduled

\* one caller of a WriteBehind facade with a Persister; the Persister calls of
\* the goroutines may fail, every other collaborator call succeeds; goroutines
\* are scheduled
BackgroundSave ==
  \E t \in BagToSet(tasks) :
    \/ \E ok \in BOOLEAN : WriteBehindSetSave(t, ok)
    \/ WriteBehindSetCompensate(t, TRUE)
    \/ \E ok \in BOOLEAN : WriteBehindDeletePersister(t, ok)

NextWriteBehindSave ==
  \/ New(TRUE, TRUE, <<"WriteBehind">>)
  \/ Step(Callers, {TRUE})
  \/ BackgroundSave

SpecWriteBehindSave == Init /\ [][NextWriteBehindSave]_vars /\ Scheduled

\* two callers of a WriteThrough facade with a Persister, whose calls may
\* overlap; every collaborator call is atomic and none fails
NextConcurrent ==
  \/ New(TRUE, TRUE, <<"WriteThrough">>)
  \/ Step(Callers2, {TRUE})

SpecConcurrent == Init /\ [][NextConcurrent]_vars

\* the cache and the store both empty at construction
InitEmpty == Init /\ store = [k \in Keys |-> Nil]

\* a Persister call of a call in progress fails
PersisterFails(c) ==
  /\ \/ GetSelectOne(c, FALSE)
     \/ WriteThroughSetSave(c, FALSE)
     \/ WriteThroughDeletePersister(c, FALSE)
  /\ UNCHANGED <<facade, newRet, bgFailed, engine>>

\* one caller of a WriteThrough facade with a Persister, from an empty cache
\* and store; calls do not overlap; Persister calls may fail, Cacher calls
\* succeed
NextWriteThrough ==
  \/ New(TRUE, TRUE, <<"WriteThrough">>)
  \/ \E c \in Callers :
       \/ \E k \in Keys, v \in Values : Set(c, k, v, TRUE)
       \/ \E k \in Keys : Get(c, k, TRUE)
       \/ \E k \in Keys : Delete(c, k, TRUE)
       \/ Continue(c, TRUE)
       \/ PersisterFails(c)

SpecWriteThrough == InitEmpty /\ [][NextWriteThrough]_vars

\* a memory or a redis Cacher on its own, under any Set calls
EngineNew ==
  \/ \E options \in TTLLists : MemoryNew(options)
  \/ \E options \in TTLLists, name \in Names, marshaller \in BOOLEAN :
       RedisNew(options, name, marshaller, TRUE)

EngineSet ==
  \E key \in Keys, value \in Values, setOptions \in TTLLists :
    \/ MemorySet(key, value, setOptions)
    \/ \E marshalled, ok \in BOOLEAN : RedisSet(key, value, setOptions, marshalled, ok)

NextEngine == EngineNew \/ EngineSet

SpecEngine == Init /\ [][NextEngine]_vars

\* ------------------------------------- Load, Close and expiry of the Cacher
\* the maps handed to Load: the value of each key, Nil for a key the map does
\* not hold
LoadData == [Keys -> MaybeValues]

\* Load(ctx, data) of the Cacher the facade is bound to.  Every entry of data
\* is written with the Cacher's ttl; with a marshaller an entry whose Marshal
\* fails (the keys in skipped) is left out.  memory.Load returns nil; the
\* pipeline of redis.Load may fail, and fails on a closed client
Load(data, skipped, ok) ==
  /\ engine.kind \in {"memory", "redis"}
  /\ engine.kind = "memory" => ok
  /\ engine.closed => ~ok
  /\ ~engine.marshaller => skipped = {}
  /\ LET written == {k \in Keys : data[k] # Nil /\ k \notin skipped}
     IN  /\ cache' = IF ok THEN [k \in Keys |-> IF k \in written THEN data[k] ELSE cache[k]]
                     ELSE cache
         /\ expiry' = IF ok
                        THEN [k \in Keys |-> IF k \in written
                                                THEN Expiration(engine.kind, engine.ttl, engine.ttl)
                                                ELSE expiry[k]]
                        ELSE expiry
  /\ UNCHANGED <<facade, newRet, store, call, hist, tasks, kv, bgFailed, engine>>

\* Close() of the Cacher.  memory.Close flushes the cache, c.cache.Flush(),
\* returns nil and the Cacher stays usable.  redis.Close removes nothing: with
\* closeClient it returns c.client.Close(), which closes the client and fails
\* on a client already closed; without, it returns nil and leaves the client
\* as it is, open or closed
Close(ok) ==
  /\ engine.kind \in {"memory", "redis"}
  /\ ~(engine.kind = "redis" /\ engine.closeClient) => ok
  /\ (engine.kind = "redis" /\ engine.closeClient /\ engine.closed) => ~ok
  /\ cache' = IF engine.kind = "memory" THEN [k \in Keys |-> Nil] ELSE cache
  /\ engine' = [engine EXCEPT !.closed = engine.closed \/ (engine.kind = "redis" /\ engine.closeClient),
                              !.closeErr = Err(ok, ErrClientClose)]
  /\ UNCHANGED <<facade, newRet, store, call, hist, tasks, kv, bgFailed, expiry>>

\* the client a redis Cacher shares, WithSharedRedisClient(client, false), is
\* closed by the Cacher that owns it
SharedClientClose ==
  /\ engine.kind = "redis" /\ ~engine.closeClient /\ ~engine.closed
  /\ engine' = [engine EXCEPT !.closed = TRUE]
  /\ UNCHANGED <<facade, newRet, cache, store, call, hist, tasks, kv, bgFailed, expiry>>

\* the store of the Cacher drops the entry of k, whose lifetime is over
Expire(k) ==
  /\ cache[k] # Nil /\ expiry[k] # Never
  /\ cache' = [cache EXCEPT ![k] = Nil]
  /\ UNCHANGED <<facade, newRet, store, call, hist, tasks, kv, bgFailed, engine, expiry>>

\* no option, WithTTL(0) or WithTTL(MaxTTL)
ShortTTLLists == {<<>>, <<0>>, <<MaxTTL>>}

\* the outcome of a call of the Cacher: it fails when the client is closed and
\* for no other reason
CacherOk == ~engine.closed

\* what c.client.Get answers on a closed client
ClosedReply == [val |-> EmptyString, err |-> ErrClientGet]

\* the Get of the Cacher on a closed client answers a value that is not nil
\* and no error: redis.Cacher.Get without a marshaller, value.Val() and nil
SwallowsError ==
  /\ engine.kind = "redis" /\ engine.closed
  /\ RedisGetResult(engine.marshaller, ClosedReply).err = NoErr
  /\ RedisGetResult(engine.marshaller, ClosedReply).value # Nil

\* Get(k) of the facade when c.Get answers (value, nil) with a value that is
\* not nil: CacheAside returns the Cacher's answer, the other patterns find
\* value # nil and return it, with no other collaborator call
GetAnswered(c, k, value) ==
  /\ Ready(c)
  /\ value # Nil
  /\ Return(c, "Get", k, Nil, value, NoErr, <<Op("c.Get", TRUE)>>)
  /\ UNCHANGED <<facade, newRet, cache, store, tasks, bgFailed, engine, expiry>>

\* the later collaborator calls of a call in progress, the Persister's
\* succeeding
ContinueCacher(c) ==
  /\ \/ GetSelectOne(c, TRUE)
     \/ GetBackfill(c, CacherOk)
     \/ WriteThroughSetSave(c, TRUE)
     \/ WriteThroughSetCompensate(c, CacherOk)
     \/ WriteThroughDeletePersister(c, TRUE)
     \/ WriteAroundDeleteCacher(c, CacherOk)
  /\ UNCHANGED <<facade, newRet, bgFailed, engine>>

\* the calls of the callers in C on the facade, Set with WithTTL options.  The
\* first collaborator call of Set and of Delete is the Cacher's, except under
\* WriteAround (Set calls the Persister only, Delete calls it first when one
\* is bound)
StepWithOptions(C) ==
  \E c \in C :
    \/ \E k \in Keys, v \in Values, options \in ShortTTLLists :
         SetWithOptions(c, k, v, options, facade.pattern = "WriteAround" \/ CacherOk)
    \/ \E k \in Keys :
         IF SwallowsError
           THEN GetAnswered(c, k, RedisGetResult(engine.marshaller, ClosedReply).value)
           ELSE Get(c, k, CacherOk)
    \/ \E k \in Keys :
         Delete(c, k, (facade.pattern = "WriteAround" /\ facade.persister) \/ CacherOk)
    \/ ContinueCacher(c)

\* the goroutines of WriteBehind: their Persister calls succeed, c.Delete is
\* the Cacher's
BackgroundCacher ==
  \E t \in BagToSet(tasks) :
    \/ WriteBehindSetSave(t, TRUE)
    \/ WriteBehindSetCompensate(t, CacherOk)
    \/ WriteBehindDeletePersister(t, TRUE)

\* one caller of a facade of any pattern over the Cacher built before, which
\* is also loaded and closed directly, whose entries expire and whose shared
\* client its owner may close; the Persister does not fail, the Cacher fails
\* once its client is closed
NextFacadeCacher ==
  \/ \E persister \in BOOLEAN, pattern \in Patterns :
       engine.kind # "none" /\ New(TRUE, persister, <<pattern>>)
  \/ StepWithOptions(Callers)
  \/ BackgroundCacher
  \/ \E data \in LoadData, skipped \in SUBSET Keys, ok \in BOOLEAN : Load(data, skipped, ok)
  \/ \E ok \in BOOLEAN : Close(ok)
  \/ SharedClientClose
  \/ \E k \in Keys : Expire(k)

\* the facade over a memory Cacher built with WithTTL(ttl), ttl on either side
\* of the test of defaults, or over a redis Cacher with WithTTL(MaxTTL), built
\* with or without a marshaller and with or without
\* WithSharedRedisClient(client, false)
NextCacher ==
  \/ \E ttl \in {Second, MaxTTL} : MemoryNew(<<ttl>>)
  \/ \E marshaller \in BOOLEAN, closeClient \in BOOLEAN :
       RedisNew(<<MaxTTL>>, "", marshaller, closeClient)
  \/ NextFacadeCacher

SpecCacher == Init /\ [][NextCacher]_vars

\* a redis Cacher on its own, under any Get calls and any answers of the client
NextRedisGet ==
  \/ \E options \in TTLLists, name \in Names, marshaller \in BOOLEAN :
       RedisNew(options, name, marshaller, TRUE)
  \/ \E key \in Keys, reply \in Replies : RedisGet(key, reply)

SpecRedisGet == Init /\ [][NextRedisGet]_vars

\* ------------------------------------------------------------------ claims
Last(h) == h[Len(h)]

\* every collaborator call the completed call r made succeeded
Clean(r) == \A i \in 1..Len(r.ops) : r.ops[i].ok

SetThenGet(h) ==
  /\ Len(h) = 2
  /\ h[1].op = "Set" /\ h[1].err = NoErr
  /\ h[2].op = "Get" /\ h[2].key = h[1].key

\* C1: under CacheAside, ReadThrough, WriteThrough and WriteBehind, with or
\* without a Persister, a Get(k) that follows a Set(k, v) which returned nil
\* returns (v, nil) when no collaborator call of the two calls failed and no
\* collaborator call of a goroutine has failed.
C1_RoundTrip ==
  \A c \in Callers :
    (/\ facade.pattern \in {"CacheAside", "ReadThrough", "WriteThrough", "WriteBehind"}
     /\ SetThenGet(hist[c])
     /\ Clean(hist[c][1]) /\ Clean(hist[c][2])
     /\ ~bgFailed)
    => hist[c][2].rv = hist[c][1].val /\ hist[c][2].err = NoErr

C1_Witness ==
  /\ facade.pattern = "WriteBehind" /\ facade.persister
  /\ SetThenGet(hist[1]) /\ Clean(hist[1][1]) /\ Clean(hist[1][2]) /\ ~bgFailed
  /\ hist[1][1].val = "b" /\ hist[1][2].rv = "b"
  /\ store["k"] = "a"

\* the completed call r made the collaborator call name with outcome ok
Made(r, name, ok) == \E i \in 1..Len(r.ops) : r.ops[i] = Op(name, ok)

\* caller c is between two calls and has completed one
Returned(c) == call[c].pc = "idle" /\ Len(hist[c]) > 0

\* C2 as stated: when a WriteThrough Set whose Save failed returns, the cache
\* holds no entry for the key and the error returned is the Save error.
C2_Original ==
  \A c \in Callers :
    (/\ facade.pattern = "WriteThrough" /\ Returned(c)
     /\ Last(hist[c]).op = "Set" /\ Made(Last(hist[c]), "p.Save", FALSE))
    => /\ Last(hist[c]).err = ErrSave
       /\ cache[Last(hist[c]).key] = Nil

\* C2 amended: a WriteThrough Set whose Save failed calls the compensating
\* Cacher.Delete and returns the Save error; when that Delete succeeded the
\* cache holds no entry for the key as the call returns.
C2_Amended ==
  \A c \in Callers :
    (/\ facade.pattern = "WriteThrough" /\ Returned(c)
     /\ Last(hist[c]).op = "Set" /\ Made(Last(hist[c]), "p.Save", FALSE))
    => LET r == Last(hist[c])
       IN  /\ r.err = ErrSave
           /\ Len(r.ops) = 3 /\ r.ops[3].op = "c.Delete"
           /\ r.ops[3].ok => cache[r.key] = Nil

C2_Witness ==
  /\ facade.pattern = "WriteThrough" /\ Returned(1)
  /\ Last(hist[1]) = Rec("Set", "k", "a", Nil, ErrSave,
                         <<Op("c.Set", TRUE), Op("p.Save", FALSE), Op("c.Delete", TRUE)>>)
  /\ cache["k"] = Nil
  /\ store["k"] = "b"

\* what C3 is about, step by step: a successful SelectOne of a non-nil value
\* hands that value to the backfill, and the backfill step returns it
SelectOneThenBackfill(c, ok) ==
  /\ (GetSelectOne(c, ok) /\ ok /\ store[call[c].key] # Nil)
       => call'[c].pc = "backfill" /\ call'[c].value = store[call[c].key]
  /\ GetBackfill(c, ok)
       => /\ call'[c].pc = "idle"
          /\ Last(hist'[c]).op = "Get" /\ Last(hist'[c]).key = call[c].key
          /\ Last(hist'[c]).rv = call[c].value /\ Last(hist'[c]).err = NoErr

\* C3 as stated: with a Persister, a Get that misses the cache and whose
\* SelectOne returns a non-nil v returns (v, nil), and the cache holds v for
\* the key when it returns.
C3_Original ==
  [][\A c \in Callers, ok \in BOOLEAN :
       /\ SelectOneThenBackfill(c, ok)
       /\ GetBackfill(c, ok) => cache'[call[c].key] = call[c].value]_vars

\* C3 amended: such a Get returns (v, nil), and the cache holds v for the key
\* when it returns provided the backfilling Cacher.Set succeeded.
C3_Amended ==
  [][\A c \in Callers, ok \in BOOLEAN :
       /\ SelectOneThenBackfill(c, ok)
       /\ (GetBackfill(c, ok) /\ ok) => cache'[call[c].key] = call[c].value]_vars

C3_Witness ==
  /\ facade.pattern = "WriteAround" /\ facade.persister /\ Returned(1)
  /\ Last(hist[1]) = Rec("Get", "k", Nil, "a", NoErr,
                         <<Op("c.Get", TRUE), Op("p.SelectOne", TRUE), Op("c.Set", TRUE)>>)
  /\ cache["k"] = "a"

\* C4: a WriteBehind Set whose Cacher.Set succeeds returns nil in the step of
\* that Cacher.Set: the Persister is not called by the call, the Save is left
\* to a goroutine that has not run when the call returns, and no completed
\* WriteBehind Set ever carries another error than the Cacher's.
C4_SetReturnsBeforeSave ==
  [][facade.pattern = "WriteBehind" =>
       \A c \in Callers :
         /\ \A k \in Keys, v \in Values :
              Set(c, k, v, TRUE)
                => /\ call'[c].pc = "idle"
                   /\ Last(hist'[c]) = Rec("Set", k, v, Nil, NoErr, <<Op("c.Set", TRUE)>>)
                   /\ store' = store
                   /\ facade.persister
                        => CopiesIn(SaveTask(k, v), tasks') = CopiesIn(SaveTask(k, v), tasks) + 1
         /\ \A i \in 1..Len(hist'[c]) :
              hist'[c][i].op = "Set"
                => /\ Len(hist'[c][i].ops) = 1 /\ hist'[c][i].ops[1].op = "c.Set"
                   /\ hist'[c][i].err = Err(hist'[c][i].ops[1].ok, ErrCacherSet)]_vars

\* the Set has returned nil and its Save has failed afterwards
C4_Witness ==
  /\ facade.pattern = "WriteBehind" /\ facade.persister /\ Returned(1)
  /\ Last(hist[1]) = Rec("Set", "k", "a", Nil, NoErr, <<Op("c.Set", TRUE)>>)
  /\ BagIn([SaveTask("k", "a") EXCEPT !.pc = "compensate"], tasks)

\* C5: under WriteBehind with a Persister, after successful Set calls on a
\* key and no failure, once every goroutine has finished the store holds the
\* value of the last Set, which is the value the cache holds.
C5_StoreHoldsLastSet ==
  \A c \in Callers :
    (/\ facade.pattern = "WriteBehind" /\ facade.persister
     /\ Returned(c) /\ tasks = EmptyBag)
    => /\ store[Last(hist[c]).key] = Last(hist[c]).val
       /\ store[Last(hist[c]).key] = cache[Last(hist[c]).key]

\* C6: a WriteAround Delete with a Persister whose Persister.Delete fails
\* returns that error with the cache left as it was and the Cacher not called;
\* when Persister.Delete succeeds the call goes on to Cacher.Delete, and when
\* that succeeds too it returns nil and the cache holds no entry for the key.
C6_PersisterFirst ==
  [][(facade.pattern = "WriteAround" /\ facade.persister) =>
       \A c \in Callers :
         /\ \A k \in Keys :
              /\ Delete(c, k, FALSE)
                   => /\ cache' = cache
                      /\ call'[c].pc = "idle"
                      /\ Last(hist'[c]) = Rec("Delete", k, Nil, Nil, ErrPersisterDelete,
                                              <<Op("p.Delete", FALSE)>>)
              /\ Delete(c, k, TRUE)
                   => /\ cache' = cache /\ store'[k] = Nil
                      /\ call'[c].pc = "cdelete" /\ call'[c].key = k
         /\ (At(c, "Delete", "cdelete") /\ Continue(c, TRUE))
              => /\ call'[c].pc = "idle"
                 /\ Last(hist'[c]) = Rec("Delete", call[c].key, Nil, Nil, NoErr,
                                         <<Op("p.Delete", TRUE), Op("c.Delete", TRUE)>>)
                 /\ cache'[call[c].key] = Nil]_vars

C6_Witness ==
  /\ facade.pattern = "WriteAround" /\ facade.persister /\ Returned(1)
  /\ Last(hist[1]) = Rec("Delete", "k", Nil, Nil, ErrPersisterDelete, <<Op("p.Delete", FALSE)>>)
  /\ cache["k"] = "a"
  /\ store["k"] = "a"

\* C7: under WriteAround with a Persister, a Get(k) that follows a Set(k, v),
\* no collaborator call of the two failing, returns (v, nil), whatever calls
\* came before; the Get reads the store and backfills the cache.
C7_WriteAroundRoundTrip ==
  \A c \in Callers :
    (/\ facade.pattern = "WriteAround" /\ facade.persister
     /\ SetThenGet(hist[c])
     /\ Clean(hist[c][1]) /\ Clean(hist[c][2]))
    => /\ hist[c][2].rv = hist[c][1].val /\ hist[c][2].err = NoErr
       /\ Made(hist[c][2], "p.SelectOne", TRUE)
       /\ Made(hist[c][2], "c.Set", TRUE)

\* C8: a CacheAside facade over a Cacher that never fails is a plain map: every
\* call returns a nil error, and a Get returns what the map kv holds for the
\* key: the value of the last Set, nil when the key was never set or was
\* deleted since.
C8_PlainMap ==
  \A c \in Callers :
    (facade.pattern = "CacheAside" /\ Returned(c))
    => LET r == Last(hist[c])
       IN  /\ r.err = NoErr
           /\ r.op = "Get" => r.rv = kv[r.key]
           /\ r.op = "Set" => kv[r.key] = r.val
           /\ r.op = "Delete" => kv[r.key] = Nil

C8_Witness ==
  /\ facade.pattern = "CacheAside" /\ Returned(1)
  /\ hist[1] = <<Rec("Delete", "k", Nil, Nil, NoErr, <<Op("c.Delete", TRUE)>>),
                 Rec("Get", "k", Nil, Nil, NoErr, <<Op("c.Get", TRUE)>>)>>
  /\ kv["k"] = Nil

\* C9: under CacheAside no call reaches the Persister, also when one is bound:
\* no step changes the store, launches a goroutine or leaves a call waiting
\* for a Persister call, and every completed call made Cacher calls only.
C9_CacheOnly ==
  [][facade.pattern = "CacheAside" =>
       /\ store' = store
       /\ tasks' = EmptyBag
       /\ \A c \in Callers :
            /\ call'[c].pc = "idle"
            /\ \A i \in 1..Len(hist'[c]) :
                 \A j \in 1..Len(hist'[c][i].ops) :
                   hist'[c][i].ops[j].op \in {"c.Set", "c.Get", "c.Delete"}]_vars

\* a Get that missed the cache returned nil although the store holds a value
C9_Witness ==
  /\ facade.pattern = "CacheAside" /\ facade.persister /\ Returned(1)
  /\ Last(hist[1]) = Rec("Get", "k", Nil, Nil, NoErr, <<Op("c.Get", TRUE)>>)
  /\ store["k"] = "a"

\* C10: New with a nil cacher returns no facade and ErrCacherNil, having run
\* no option, whatever persister and options it is given; with a non-nil
\* cacher it returns a facade and a nil error, also with a nil persister.
C10_NilCacher ==
  newRet.called =>
    IF ~newRet.cacher
      THEN /\ newRet.err = ErrCacherNil
           /\ ~newRet.cache /\ ~newRet.applied
           /\ facade = NoFacade
      ELSE /\ newRet.err = NoErr
           /\ newRet.cache
           /\ facade.cacher /\ facade.pattern \in Patterns

C10_Witness ==
  /\ newRet.called /\ ~newRet.cacher /\ newRet.given
  /\ newRet.err = ErrCacherNil
  /\ facade = NoFacade

\* the pattern a facade is bound to when the last WithPattern, if any, was
\* given the pattern last
Bound(last) == IF last \in {NoOption, NilPattern} THEN "CacheAside" ELSE last

\* a facade call is the bound pattern's method of the same name: same state
\* changes, same results
Dispatches(c, ok) ==
  /\ \A k \in Keys, v \in Values :
       Set(c, k, v, ok) =>
         /\ facade.pattern = "CacheAside" => CacheAsideSet(c, k, v, <<>>, ok)
         /\ facade.pattern = "ReadThrough" => ReadThroughSet(c, k, v, <<>>, ok)
         /\ facade.pattern = "WriteThrough" => WriteThroughSet(c, k, v, <<>>, ok)
         /\ facade.pattern = "WriteBehind" => WriteBehindSet(c, k, v, <<>>, ok)
         /\ facade.pattern = "WriteAround" => WriteAroundSet(c, k, v, <<>>, ok)
  /\ \A k \in Keys :
       /\ Get(c, k, ok) =>
            /\ facade.pattern = "CacheAside" => CacheAsideGet(c, k, ok)
            /\ facade.pattern = "ReadThrough" => ReadThroughGet(c, k, ok)
            /\ facade.pattern = "WriteThrough" => WriteThroughGet(c, k, ok)
            /\ facade.pattern = "WriteBehind" => WriteBehindGet(c, k, ok)
            /\ facade.pattern = "WriteAround" => WriteAroundGet(c, k, ok)
       /\ Delete(c, k, ok) =>
            /\ facade.pattern = "CacheAside" => CacheAsideDelete(c, k, ok)
            /\ facade.pattern = "ReadThrough" => ReadThroughDelete(c, k, ok)
            /\ facade.pattern = "WriteThrough" => WriteThroughDelete(c, k, ok)
            /\ facade.pattern = "WriteBehind" => WriteBehindDelete(c, k, ok)
            /\ facade.pattern = "WriteAround" => WriteAroundDelete(c, k, ok)

\* the facade New has returned is never changed afterwards
Immutable == facade # NoFacade => facade' = facade

\* C11 as stated: a facade constructed without a pattern option is bound to
\* CacheAside, one constructed with WithPattern(p) to the p of the last
\* WithPattern, for every p; no later step changes the facade, and a facade
\* call is the bound pattern's method.
C11_Original ==
  [][/\ \A cacher, persister \in BOOLEAN, options \in OptionLists :
          (New(cacher, persister, options) /\ cacher)
            => /\ facade'.cacher /\ facade'.persister = persister
               /\ facade'.pattern = IF options = <<>> THEN "CacheAside" ELSE options[Len(options)]
     /\ Immutable
     /\ \A c \in Callers, ok \in BOOLEAN : Dispatches(c, ok)]_vars

\* C11 amended: a facade constructed without a pattern option, or whose last
\* WithPattern was given a nil pattern, is bound to CacheAside; otherwise it
\* is bound to the pattern of the last WithPattern; no later step changes the
\* facade, and a facade call is the bound pattern's method.
C11_Amended ==
  [][/\ \A cacher, persister \in BOOLEAN, options \in OptionLists :
          (New(cacher, persister, options) /\ cacher)
            => /\ facade'.cacher /\ facade'.persister = persister
               /\ facade'.pattern = Bound(IF options = <<>> THEN NoOption ELSE options[Len(options)])
               /\ facade'.pattern = Bound(newRet'.last)
     /\ Immutable
     /\ \A c \in Callers, ok \in BOOLEAN : Dispatches(c, ok)]_vars

\* a facade whose last WithPattern was given WriteBehind has served a call
C11_Witness ==
  /\ newRet.last = "WriteBehind" /\ facade.pattern = "WriteBehind"
  /\ Returned(1) /\ Last(hist[1]).op = "Delete"

\* C12: the TTL a Set of the memory or the redis Cacher hands to the underlying
\* store is the duration of the last WithTTL of the call, zero included; with
\* no WithTTL in the call it is the TTL the Cacher was configured with, and
\* zero when the Cacher was configured with none.
C12_TTLPrecedence ==
  (engine.set.called /\ engine.set.store.stored)
    => engine.set.store.ttl =
         IF engine.set.given THEN engine.set.last
         ELSE IF engine.configured THEN engine.ttl
         ELSE 0

\* a redis Cacher configured with a TTL has handed the zero TTL of the last
\* WithTTL of a Set to the client
C12_Witness ==
  /\ engine.kind = "redis" /\ engine.configured /\ engine.ttl = 2
  /\ engine.set.called /\ engine.set.given /\ engine.set.last = 0
  /\ engine.set.store.stored /\ engine.set.store.ttl = 0

\* C13: with collaborators that report an absent key as a nil value without
\* error, a Get of a key the cache does not hold returns (nil, nil) at once
\* under CacheAside or with a nil Persister, and otherwise goes on to
\* SelectOne, which returns (nil, nil) when the store does not hold the key
\* either; neither step writes the cache.
C13_AbsentIsNil ==
  [][\A c \in Callers :
       /\ \A k \in Keys :
            (Get(c, k, TRUE) /\ cache[k] = Nil)
              => /\ cache' = cache
                 /\ IF facade.pattern = "CacheAside" \/ ~facade.persister
                      THEN /\ call'[c].pc = "idle"
                           /\ Last(hist'[c]) = Rec("Get", k, Nil, Nil, NoErr, <<Op("c.Get", TRUE)>>)
                      ELSE /\ call'[c].pc = "select" /\ call'[c].key = k
                           /\ call'[c].ops = <<Op("c.Get", TRUE)>>
       /\ (/\ GetSelectOne(c, TRUE)
           /\ call[c].ops = <<Op("c.Get", TRUE)>>
           /\ store[call[c].key] = Nil)
            => /\ cache' = cache
               /\ call'[c].pc = "idle"
               /\ Last(hist'[c]) = Rec("Get", call[c].key, Nil, Nil, NoErr,
                                       <<Op("c.Get", TRUE), Op("p.SelectOne", TRUE)>>)]_vars

\* a Get has found the key neither in the cache nor in the store
C13_Witness ==
  /\ facade.pattern = "WriteBehind" /\ facade.persister /\ Returned(1)
  /\ Last(hist[1]) = Rec("Get", "k", Nil, Nil, NoErr,
                         <<Op("c.Get", TRUE), Op("p.SelectOne", TRUE)>>)
  /\ cache["k"] = Nil /\ store["k"] = Nil

\* the error a failing collaborator call produces
ErrOf(name) ==
  CASE name = "c.Set" -> ErrCacherSet
    [] name = "c.Get" -> ErrCacherGet
    [] name = "c.Delete" -> ErrCacherDelete
    [] name = "p.Save" -> ErrSave
    [] name = "p.SelectOne" -> ErrSelectOne
    [] name = "p.Delete" -> ErrPersisterDelete

\* C14: the error a completed call returned is the error of a collaborator
\* call it made and that failed, and that call is the last the call made
\* unless it is a WriteThrough Set whose Save failed: that one returns the
\* Save error after the compensating Cacher.Delete, also when the Delete
\* failed.
C14_ErrorUnchanged ==
  \A c \in Callers : \A i \in 1..Len(hist[c]) :
    LET r == hist[c][i]
        n == Len(r.ops)
    IN  /\ r.err # NoErr
             => /\ n > 0
                /\ \E j \in 1..n : ~r.ops[j].ok /\ r.err = ErrOf(r.ops[j].op)
                /\ IF facade.pattern = "WriteThrough" /\ r.op = "Set" /\ n = 3
                     THEN r.ops[2] = Op("p.Save", FALSE) /\ r.err = ErrSave
                     ELSE ~r.ops[n].ok /\ r.err = ErrOf(r.ops[n].op)
        /\ (facade.pattern = "WriteThrough" /\ r.op = "Set" /\ Made(r, "p.Save", FALSE))
             => r.err = ErrSave

\* the Save and the compensating delete of a WriteThrough Set have both failed
C14_Witness ==
  /\ facade.pattern = "WriteThrough" /\ Returned(1)
  /\ Last(hist[1]) = Rec("Set", "k", "a", Nil, ErrSave,
                         <<Op("c.Set", TRUE), Op("p.Save", FALSE), Op("c.Delete", FALSE)>>)
  /\ cache["k"] = "a"

\* C15: with a nil Persister, under ReadThrough, WriteThrough, WriteBehind and
\* WriteAround no goroutine is ever in flight and every call is one step that
\* leaves the store alone: a Set (a Delete) is the Cacher's Set (Delete) and
\* returns its result, except WriteAround's Set, which returns nil and changes
\* nothing; a Get returns the Cacher's value, nil when the Cacher failed, with
\* a nil error.
C15_NilPersister ==
  [][(facade.cacher /\ ~facade.persister /\ facade.pattern # "CacheAside") =>
       /\ tasks = EmptyBag /\ tasks' = EmptyBag
       /\ store' = store
       /\ \A c \in Callers : call'[c].pc = "idle"
       /\ \A c \in Callers, k \in Keys, ok \in BOOLEAN :
            /\ \A v \in Values :
                 Set(c, k, v, ok) =>
                   IF facade.pattern = "WriteAround"
                     THEN /\ cache' = cache
                          /\ Last(hist'[c]) = Rec("Set", k, v, Nil, NoErr, <<>>)
                     ELSE /\ cache' = CacherSet(k, v, ok)
                          /\ Last(hist'[c]) = Rec("Set", k, v, Nil, Err(ok, ErrCacherSet),
                                                  <<Op("c.Set", ok)>>)
            /\ Delete(c, k, ok) =>
                 /\ cache' = CacherDelete(k, ok)
                 /\ Last(hist'[c]) = Rec("Delete", k, Nil, Nil, Err(ok, ErrCacherDelete),
                                         <<Op("c.Delete", ok)>>)
            /\ Get(c, k, ok) =>
                 /\ cache' = cache
                 /\ Last(hist'[c]) = Rec("Get", k, Nil, IF ok THEN cache[k] ELSE Nil, NoErr,
                                         <<Op("c.Get", ok)>>)]_vars

\* a WriteAround Set without a Persister has returned nil and the following
\* Get has found nothing
C15_Witness ==
  /\ facade.pattern = "WriteAround" /\ ~facade.persister /\ Returned(1)
  /\ hist[1] = <<Rec("Set", "k", "a", Nil, NoErr, <<>>),
                 Rec("Get", "k", Nil, Nil, NoErr, <<Op("c.Get", TRUE)>>)>>
  /\ cache["k"] = Nil

\* C16: under WriteThrough with a Persister, from an empty cache and store,
\* with Persister calls that may fail and Cacher calls that succeed, whenever
\* the caller is between two calls every entry the cache holds is the value
\* the store holds for its key.
C16_Synchronized ==
  (facade.pattern = "WriteThrough" /\ facade.persister /\ \A c \in Callers : call[c].pc = "idle")
    => \A k \in Keys : cache[k] # Nil => cache[k] = store[k]

\* a Set over an existing entry has failed at Save: the cache entry is gone,
\* the store keeps the older value
C16_Witness ==
  /\ facade.pattern = "WriteThrough" /\ Returned(1)
  /\ Last(hist[1]) = Rec("Set", "k", "b", Nil, ErrSave,
                         <<Op("c.Set", TRUE), Op("p.Save", FALSE), Op("c.Delete", TRUE)>>)
  /\ cache["k"] = Nil /\ store["k"] = "a"

\* C17: the Persister call of a goroutine launched by a WriteBehind Set or
\* Delete is carried out also when the caller has cancelled the ctx of the
\* call in the meantime: the Save writes the value to the store, the Delete
\* removes the entry.
C17_CancelDoesNotStopWrite ==
  [][\A t \in BagToSet(tasks), ok \in BOOLEAN :
       /\ (t.cancelled /\ WriteBehindSetSave(t, ok))
            => store' = [store EXCEPT ![t.key] = t.val]
       /\ (t.cancelled /\ WriteBehindDeletePersister(t, ok))
            => store' = [store EXCEPT ![t.key] = Nil]]_vars

\* C18: under ReadThrough, WriteThrough, WriteBehind and WriteAround a Get
\* whose Cacher.Get fails returns (nil, nil) with a nil Persister; with a
\* Persister it goes on to SelectOne, and when that succeeds it returns the
\* store's value with a nil error (through the backfill when the value is not
\* nil); no completed Get carries the Cacher's Get error.
C18_CacherGetErrorIsMiss ==
  [][(facade.cacher /\ facade.pattern # "CacheAside") =>
       \A c \in Callers :
         /\ \A k \in Keys :
              Get(c, k, FALSE)
                => /\ cache' = cache
                   /\ IF facade.persister
                        THEN /\ call'[c].pc = "select" /\ call'[c].key = k
                             /\ call'[c].ops = <<Op("c.Get", FALSE)>>
                        ELSE /\ call'[c].pc = "idle"
                             /\ Last(hist'[c]) = Rec("Get", k, Nil, Nil, NoErr, <<Op("c.Get", FALSE)>>)
         /\ (GetSelectOne(c, TRUE) /\ call[c].ops = <<Op("c.Get", FALSE)>>)
              => IF store[call[c].key] = Nil
                   THEN /\ call'[c].pc = "idle"
                        /\ Last(hist'[c]) = Rec("Get", call[c].key, Nil, Nil, NoErr,
                                                <<Op("c.Get", FALSE), Op("p.SelectOne", TRUE)>>)
                   ELSE /\ call'[c].pc = "backfill"
                        /\ call'[c].value = store[call[c].key]
         /\ \A ok \in BOOLEAN :
              (GetBackfill(c, ok) /\ call[c].ops[1] = Op("c.Get", FALSE))
                => /\ call'[c].pc = "idle"
                   /\ Last(hist'[c]).rv = call[c].value /\ Last(hist'[c]).err = NoErr
         /\ \A i \in 1..Len(hist'[c]) :
              hist'[c][i].op = "Get" => hist'[c][i].err # ErrCacherGet]_vars

\* a Get whose Cacher.Get failed has returned the store's value
C18_Witness ==
  /\ facade.pattern = "ReadThrough" /\ facade.persister /\ Returned(1)
  /\ Last(hist[1]) = Rec("Get", "k", Nil, "a", NoErr,
                         <<Op("c.Get", FALSE), Op("p.SelectOne", TRUE), Op("c.Set", TRUE)>>)
  /\ store["k"] = "a"

\* C19: under ReadThrough, WriteThrough, WriteBehind and WriteAround a Get
\* that has missed the cache and whose SelectOne fails returns (nil, the
\* SelectOne error); neither step of the call writes the cache.
C19_SelectOneErrorAborts ==
  [][(facade.cacher /\ facade.persister /\ facade.pattern # "CacheAside") =>
       \A c \in Callers :
         /\ \A k \in Keys, ok \in BOOLEAN : Get(c, k, ok) => cache' = cache
         /\ GetSelectOne(c, FALSE)
              => /\ cache' = cache
                 /\ call'[c].pc = "idle"
                 /\ Last(hist'[c]) = Rec("Get", call[c].key, Nil, Nil, ErrSelectOne,
                                         Append(call[c].ops, Op("p.SelectOne", FALSE)))]_vars

\* a Get has returned the SelectOne error, the cache empty, the store not
C19_Witness ==
  /\ facade.pattern = "WriteThrough" /\ facade.persister /\ Returned(1)
  /\ Last(hist[1]) = Rec("Get", "k", Nil, Nil, ErrSelectOne,
                         <<Op("c.Get", TRUE), Op("p.SelectOne", FALSE)>>)
  /\ cache["k"] = Nil /\ store["k"] = "a"

\* C20: under WriteThrough a Set (a Delete) calls the Cacher first; when that
\* call fails the call returns the Cacher's error at once, the store
\* unchanged and the Persister not called; a completed Set or Delete has made
\* a Persister call only after its Cacher call succeeded.
C20_CacheFirstFatal ==
  [][facade.pattern = "WriteThrough" =>
       \A c \in Callers :
         /\ \A k \in Keys :
              /\ \A v \in Values :
                   Set(c, k, v, FALSE)
                     => /\ store' = store
                        /\ call'[c].pc = "idle"
                        /\ Last(hist'[c]) = Rec("Set", k, v, Nil, ErrCacherSet, <<Op("c.Set", FALSE)>>)
              /\ Delete(c, k, FALSE)
                   => /\ store' = store
                      /\ call'[c].pc = "idle"
                      /\ Last(hist'[c]) = Rec("Delete", k, Nil, Nil, ErrCacherDelete,
                                              <<Op("c.Delete", FALSE)>>)
              /\ \A v \in Values, ok \in BOOLEAN :
                   (Set(c, k, v, ok) \/ Delete(c, k, ok)) => store' = store
         /\ \A i \in 1..Len(hist'[c]) :
              LET r == hist'[c][i]
              IN  r.op \in {"Set", "Delete"}
                    => /\ r.ops[1].op = IF r.op = "Set" THEN "c.Set" ELSE "c.Delete"
                       /\ Len(r.ops) > 1 => r.ops[1].ok /\ facade.persister]_vars

\* a Delete whose Cacher.Delete failed has returned, cache and store as before
C20_Witness ==
  /\ facade.pattern = "WriteThrough" /\ facade.persister /\ Returned(1)
  /\ Last(hist[1]) = Rec("Delete", "k", Nil, Nil, ErrCacherDelete, <<Op("c.Delete", FALSE)>>)
  /\ cache["k"] = "a" /\ store["k"] = "a"

\* the completed WriteThrough Delete of k whose Cacher.Delete succeeded and
\* whose Persister.Delete failed
FailedStoreDelete(k) ==
  Rec("Delete", k, Nil, Nil, ErrPersisterDelete, <<Op("c.Delete", TRUE), Op("p.Delete", FALSE)>>)

\* C21: a WriteThrough Delete whose Cacher.Delete succeeded and whose
\* Persister.Delete fails returns the Persister's error and compensates
\* nothing: the cache holds no entry for the key, before and after the failed
\* step, and the store is as it was; a following Get of the key, no
\* collaborator call of which fails, returns the value the store holds, and
\* when the store holds one the Get has written it back into the cache.
C21_NoCompensation ==
  [][(facade.pattern = "WriteThrough" /\ facade.persister) =>
       \A c \in Callers :
         /\ WriteThroughDeletePersister(c, FALSE)
              => /\ cache[call[c].key] = Nil
                 /\ cache' = cache /\ store' = store
                 /\ call'[c].pc = "idle"
                 /\ Last(hist'[c]) = FailedStoreDelete(call[c].key)
         /\ \A k \in Keys :
              (/\ call'[c].pc = "idle" /\ Len(hist'[c]) = 2
               /\ hist'[c][1] = FailedStoreDelete(k)
               /\ hist'[c][2].op = "Get" /\ hist'[c][2].key = k /\ Clean(hist'[c][2]))
                => /\ hist'[c][2].rv = store'[k] /\ hist'[c][2].err = NoErr
                   /\ Made(hist'[c][2], "p.SelectOne", TRUE)
                   /\ store'[k] # Nil
                        => cache'[k] = store'[k] /\ Made(hist'[c][2], "c.Set", TRUE)]_vars

\* the Get that followed the failed Delete has brought the value back
C21_Witness ==
  /\ facade.pattern = "WriteThrough" /\ facade.persister /\ Returned(1)
  /\ hist[1] = <<FailedStoreDelete("k"),
                 Rec("Get", "k", Nil, "a", NoErr,
                     <<Op("c.Get", TRUE), Op("p.SelectOne", TRUE), Op("c.Set", TRUE)>>)>>
  /\ cache["k"] = "a" /\ store["k"] = "a"

\* C22: a WriteBehind Delete whose Cacher.Delete fails returns that error and
\* launches no goroutine; one whose Cacher.Delete succeeds returns nil at
\* once, having launched the goroutine when a Persister is bound; the
\* goroutine's Persister.Delete changes no call's result, and when it
\* succeeds the store holds no value for the key; a goroutine in flight is
\* followed by a store without a value for its key, unless a goroutine's
\* collaborator call fails.
C22_BackgroundDelete ==
  /\ [][facade.pattern = "WriteBehind" =>
          /\ \A c \in Callers, k \in Keys :
               /\ Delete(c, k, FALSE)
                    => /\ tasks' = tasks /\ store' = store
                       /\ call'[c].pc = "idle"
                       /\ Last(hist'[c]) = Rec("Delete", k, Nil, Nil, ErrCacherDelete,
                                               <<Op("c.Delete", FALSE)>>)
               /\ Delete(c, k, TRUE)
                    => /\ store' = store
                       /\ call'[c].pc = "idle"
                       /\ Last(hist'[c]) = Rec("Delete", k, Nil, Nil, NoErr, <<Op("c.Delete", TRUE)>>)
                       /\ CopiesIn(DeleteTask(k), tasks')
                            = CopiesIn(DeleteTask(k), tasks) + IF facade.persister THEN 1 ELSE 0
          /\ \A t \in BagToSet(tasks), ok \in BOOLEAN :
               WriteBehindDeletePersister(t, ok)
                 => /\ hist' = hist /\ call' = call
                    /\ ok => store'[t.key] = Nil]_vars
  /\ \A k \in Keys :
       (BagIn(DeleteTask(k), tasks) /\ ~bgFailed) ~> (store[k] = Nil \/ bgFailed)

\* the goroutine of a Delete has emptied the store after the Delete returned
C22_Witness ==
  /\ facade.pattern = "WriteBehind" /\ facade.persister /\ Returned(1)
  /\ Last(hist[1]) = Rec("Delete", "k", Nil, Nil, NoErr, <<Op("c.Delete", TRUE)>>)
  /\ Len(hist[1]) = 1
  /\ tasks = EmptyBag /\ ~bgFailed
  /\ store["k"] = Nil

\* the one call caller c has made so far is a Set(k, v) that returned nil
OnlySet(c, k, v) ==
  /\ call[c].pc = "idle"
  /\ Len(hist[c]) = 1
  /\ hist[c][1].op = "Set" /\ hist[c][1].key = k /\ hist[c][1].val = v
  /\ hist[c][1].err = NoErr /\ Clean(hist[c][1])

\* C23 as stated: when the only call made is a WriteBehind Set(k, v) whose
\* background Save failed, once the goroutine has finished neither the cache
\* nor the store holds v for k.
C23_Original ==
  \A c \in Callers, k \in Keys, v \in Values :
    (/\ facade.pattern = "WriteBehind" /\ facade.persister
     /\ OnlySet(c, k, v) /\ tasks = EmptyBag /\ bgFailed)
    => cache[k] # v /\ store[k] # v

\* C23 amended: the failed Save of a goroutine leaves the store and every
\* call's result as they were and is followed by the cache delete, which leaves
\* no entry for the key; when the only call made is a WriteBehind Set(k, v),
\* the goroutine finishes unless another call is made, and then either the
\* Save succeeded and the store holds v, or it failed and the cache holds no
\* entry for k (the store holding what it held before the Set).
C23_Amended ==
  /\ [][facade.pattern = "WriteBehind" =>
          \A t \in BagToSet(tasks) :
            /\ WriteBehindSetSave(t, FALSE)
                 => /\ store' = store /\ cache' = cache
                    /\ hist' = hist /\ call' = call
                    /\ BagIn([t EXCEPT !.pc = "compensate"], tasks')
            /\ WriteBehindSetCompensate(t, TRUE)
                 => /\ cache'[t.key] = Nil /\ store' = store
                    /\ hist' = hist /\ call' = call
                    /\ CopiesIn(t, tasks') = CopiesIn(t, tasks) - 1]_vars
  /\ \A c \in Callers, k \in Keys, v \in Values :
       /\ [](/\ facade.pattern = "WriteBehind" /\ facade.persister
              /\ OnlySet(c, k, v) /\ tasks = EmptyBag
              => IF bgFailed THEN cache[k] = Nil ELSE store[k] = v /\ cache[k] = v)
       /\ (OnlySet(c, k, v) /\ BagIn(SaveTask(k, v), tasks))
            ~> (~OnlySet(c, k, v) \/ tasks = EmptyBag)

\* the Save of the only Set has failed and its goroutine has deleted the
\* cache entry; the store holds the value it held before
C23_Witness ==
  /\ facade.pattern = "WriteBehind" /\ facade.persister
  /\ OnlySet(1, "k", "b") /\ tasks = EmptyBag /\ bgFailed
  /\ cache["k"] = Nil /\ store["k"] = "a"

\* C24: under WriteBehind with a Persister and no failing call, when the
\* caller's last two calls are a Set(k, v) and then a Delete(k) and every
\* goroutine has finished, a Get(k) returns (nil, nil): it misses the cache
\* and its SelectOne finds no value in the store.
C24_DeletedStaysDeleted ==
  [][\A c \in Callers, k \in Keys, v \in Values :
       (/\ facade.pattern = "WriteBehind" /\ facade.persister
        /\ hist[c] = <<Rec("Set", k, v, Nil, NoErr, <<Op("c.Set", TRUE)>>),
                       Rec("Delete", k, Nil, Nil, NoErr, <<Op("c.Delete", TRUE)>>)>>
        /\ tasks = EmptyBag
        /\ Get(c, k, TRUE))
       => /\ cache[k] = Nil /\ store[k] = Nil
          /\ call'[c].pc = "select"]_vars

\* C25: under WriteThrough with a Persister and atomic collaborators that do
\* not fail, when each of two callers has made one call, a Set on the same
\* key, and both calls have returned, the cache and the store hold the same
\* value for the key, however the two calls overlapped.
C25_ConcurrentSets ==
  \A k \in Keys, v1, v2 \in Values :
    (/\ facade.pattern = "WriteThrough" /\ facade.persister
     /\ OnlySet(1, k, v1) /\ OnlySet(2, k, v2))
    => cache[k] = store[k]

\* C26: under ReadThrough no step changes the store or launches a goroutine,
\* a Set and a Delete are one Cacher call each, and only a Get calls the
\* Persister, with SelectOne; so when a Delete(k) that returned nil is
\* followed by a Get(k) none of whose collaborator calls fails, with a
\* Persister bound, the Get returns the value the store holds for k.
C26_StoreUntouched ==
  [][facade.pattern = "ReadThrough" =>
       /\ store' = store
       /\ tasks' = EmptyBag
       /\ \A c \in Callers :
            /\ \A k \in Keys, ok \in BOOLEAN :
                 /\ \A v \in Values : Set(c, k, v, ok) => call'[c].pc = "idle"
                 /\ Delete(c, k, ok) => call'[c].pc = "idle"
            /\ \A i \in 1..Len(hist'[c]) :
                 LET r == hist'[c][i]
                 IN  /\ r.op = "Set" => r.ops = <<Op("c.Set", r.err = NoErr)>>
                     /\ r.op = "Delete" => r.ops = <<Op("c.Delete", r.err = NoErr)>>
                     /\ \A j \in 1..Len(r.ops) :
                          r.ops[j].op \in {"c.Set", "c.Get", "c.Delete", "p.SelectOne"}
            /\ (/\ facade.persister /\ call'[c].pc = "idle" /\ Len(hist'[c]) = 2
                /\ hist'[c][1].op = "Delete" /\ hist'[c][1].err = NoErr
                /\ hist'[c][2].op = "Get" /\ hist'[c][2].key = hist'[c][1].key
                /\ Clean(hist'[c][2]))
                 => /\ hist'[c][2].rv = store'[hist'[c][2].key]
                    /\ hist'[c][2].err = NoErr]_vars

\* the Get that followed a Delete has returned the store's value
C26_Witness ==
  /\ facade.pattern = "ReadThrough" /\ facade.persister /\ Returned(1)
  /\ hist[1] = <<Rec("Delete", "k", Nil, Nil, NoErr, <<Op("c.Delete", TRUE)>>),
                 Rec("Get", "k", Nil, "a", NoErr,
                     <<Op("c.Get", TRUE), Op("p.SelectOne", TRUE), Op("c.Set", TRUE)>>)>>
  /\ store["k"] = "a"

\* the completed WriteThrough Set(k, v) whose Save failed and whose
\* compensating delete succeeded
FailedSave(k, v) ==
  Rec("Set", k, v, Nil, ErrSave, <<Op("c.Set", TRUE), Op("p.Save", FALSE), Op("c.Delete", TRUE)>>)

\* what a Get(k) none of whose collaborator calls fails returns
WouldGet(k) == IF cache[k] # Nil \/ ~facade.persister THEN cache[k] ELSE store[k]

\* C27: under WriteThrough with a Persister, one caller and Cacher calls that
\* succeed, a Set(k, v2) that returns the Save error has left the store as it
\* was at every step, and a Get(k) at its start would have returned the
\* store's value; when it returns, a Get(k) would return the store's value
\* still: the value a Get(k) just before the Set returned, when there was one,
\* and the value the following Get(k) returns when none of its collaborator
\* calls fails.
C27_FailedSetKeepsValue ==
  [][(facade.pattern = "WriteThrough" /\ facade.persister) =>
       \A c \in Callers :
         /\ \A k \in Keys, v \in Values :
              Set(c, k, v, TRUE) => store' = store /\ WouldGet(k) = store[k]
         /\ WriteThroughSetSave(c, FALSE) => store' = store
         /\ \A k \in Keys :
              (At(c, "Set", "compensate") /\ call[c].key = k /\ Continue(c, TRUE))
                => /\ store' = store
                   /\ call'[c].pc = "idle"
                   /\ Last(hist'[c]) = FailedSave(k, call[c].val)
                   /\ WouldGet(k)' = store[k]
         /\ \A k \in Keys, v \in Values :
              /\ (/\ call'[c].pc = "idle" /\ Len(hist'[c]) = 2
                  /\ hist'[c][1].op = "Get" /\ hist'[c][1].key = k /\ Clean(hist'[c][1])
                  /\ hist'[c][2] = FailedSave(k, v))
                   => hist'[c][1].rv = WouldGet(k)'
              /\ (/\ call'[c].pc = "idle" /\ Len(hist'[c]) = 2
                  /\ hist'[c][1] = FailedSave(k, v)
                  /\ hist'[c][2].op = "Get" /\ hist'[c][2].key = k /\ Clean(hist'[c][2]))
                   => /\ hist'[c][2].rv = store'[k] /\ hist'[c][2].err = NoErr
                      /\ hist'[c][2].rv = WouldGet(k)']_vars

\* the Get that followed a failed Set of "b" has returned the older "a"
C27_Witness ==
  /\ facade.pattern = "WriteThrough" /\ facade.persister /\ Returned(1)
  /\ hist[1] = <<FailedSave("k", "b"),
                 Rec("Get", "k", Nil, "a", NoErr,
                     <<Op("c.Get", TRUE), Op("p.SelectOne", TRUE), Op("c.Set", TRUE)>>)>>
  /\ cache["k"] = "a" /\ store["k"] = "a"

\* C28: a Get of the redis Cacher returns (nil, nil) exactly when the client
\* reports that the key is not found, returns a non-nil error whenever the
\* client reports any other error, with and without a marshaller, and never
\* returns a non-nil value with a nil error for a read that failed.
C28_GetErrors ==
  engine.get.called =>
    /\ (engine.get.value = Nil /\ engine.get.err = NoErr) <=> engine.get.reply.err = ErrRedisNil
    /\ engine.get.reply.err \notin {NoErr, ErrRedisNil} => engine.get.err # NoErr
    /\ engine.get.reply.err # NoErr => ~(engine.get.value # Nil /\ engine.get.err = NoErr)

====
